---------------------------- MODULE Spec2Model ----------------------------
(***************************************************************************)
(* Model of excel_dashboard_dates_fixed_final.py: the Excel date fixer     *)
(* (fix_excel_dates), the filter loop, the KPI table and the chart         *)
(* section of the single-page dashboard script.                            *)
(*                                                                         *)
(* A DataFrame is a sequence of columns; a column is a record              *)
(*   [name, dtype, vals]                                                   *)
(* where dtype is the pandas dtype family ("number", "object",             *)
(* "datetime") and vals is the sequence of cells.  A cell is a tagged      *)
(* record: Null (NaN / NaT / None), Num(n), Txt(s) or Day(d), d being the  *)
(* number of days since 1970-01-01 (the unit pandas stores timestamps in,  *)
(* scaled to days).                                                        *)
(***************************************************************************)
EXTENDS Integers, Sequences, FiniteSets

VARIABLES
    pc,           \* position of the script
    loaded,       \* snapshot of the table as read_excel returned it (line 52)
    raw,          \* content of the DataFrame object read_excel returned
    df,           \* content of the object the name df is bound to (line 59)
    filter_cols,  \* st.multiselect("Select columns to filter") (line 70)
    fi,           \* number of iterations of the filter loop done (line 75)
    selections,   \* the widget values returned in the filter loop, in order
    filtered_df,  \* content of the object bound to filtered_df
    kpi_df,       \* the KPI table (line 123), or NoFrame
    chart,        \* what the chart section rendered, or NoChart
    err           \* TRUE once the except clause (line 202) has run

vars == <<pc, loaded, raw, df, filter_cols, fi, selections, filtered_df,
          kpi_df, chart, err>>

---------------------------------------------------------------------------
(* Bounds of the model *)

MaxRows == 2

---------------------------------------------------------------------------
(* Cells *)

Null == [t |-> "null"]
Num(n) == [t |-> "num", n |-> n]
Txt(s) == [t |-> "str", s |-> s]
Day(d) == [t |-> "day", d |-> d]

IsNull(v) == v.t = "null"

(* Column labels.  read_excel gives a str label for a text header cell and *)
(* an int label for a numeric header cell.                                 *)
StrName(chars) == [isStr |-> TRUE, chars |-> chars, num |-> 0]
IntName(n) == [isStr |-> FALSE, chars |-> <<>>, num |-> n]

Column(name, dtype, vals) == [name |-> name, dtype |-> dtype, vals |-> vals]

NoFrame == <<>>

---------------------------------------------------------------------------
(* Sequence helpers *)

Range(s) == {s[i] : i \in DOMAIN s}

RECURSIVE SeqsOfLen(_, _)
SeqsOfLen(S, n) ==
    IF n = 0 THEN {<<>>}
    ELSE {Append(s, x) : s \in SeqsOfLen(S, n - 1), x \in S}

RECURSIVE SelectIdx(_, _, _)
(* the subsequence of s at the positions i with mask[i] (boolean indexing) *)
SelectIdx(s, mask, i) ==
    IF i > Len(s) THEN <<>>
    ELSE IF mask[i] THEN <<s[i]>> \o SelectIdx(s, mask, i + 1)
    ELSE SelectIdx(s, mask, i + 1)

NRows(t) == IF Len(t) = 0 THEN 0 ELSE Len(t[1].vals)

---------------------------------------------------------------------------
(* fix_excel_dates (lines 16-34) *)

SerialLo == 30000
SerialHi == 60000
(* origin="1899-12-30" in days since 1970-01-01 *)
OriginDays == -25569

(* str.lower() on the letters the labels of the model use *)
LowerChar(c) ==
    CASE c = "D" -> "d"
      [] c = "A" -> "a"
      [] c = "T" -> "t"
      [] c = "E" -> "e"
      [] c = "U" -> "u"
      [] c = "P" -> "p"
      [] OTHER -> c

Lower(chars) == [i \in DOMAIN chars |-> LowerChar(chars[i])]

(* sub in s, for sequences of characters *)
Contains(sub, s) ==
    \E i \in 1..(Len(s) - Len(sub) + 1) :
        SubSeq(s, i, i + Len(sub) - 1) = sub

DateWord == <<"d", "a", "t", "e">>

(* the number a numeric or datetime cell is compared by *)
Val(v) == IF v.t = "day" THEN v.d ELSE v.n

(* faulty variant: a datetime column passes for numeric *)
IsNumericDtypeLoose(col) == col.dtype \in {"number", "datetime"}

(* pd.api.types.is_numeric_dtype(df[col]) *)
IsNumericDtype(col) == col.dtype = "number"

(* pd.api.types.is_datetime64_any_dtype(df[col]) *)
IsDatetimeDtype(col) == col.dtype = "datetime"

(* series.dropna() *)
DropNa(vals) == SelectSeq(vals, LAMBDA v : ~IsNull(v))

(* Series.between(left, right): inclusive on both sides, False for NaN *)
Between(v, lo, hi) == ~IsNull(v) /\ lo <= Val(v) /\ Val(v) <= hi

(* faulty variant: any() in place of all() *)
IsSerialColumnAny(col) ==
    LET series == DropNa(col.vals)
    IN  /\ Len(series) > 0
        /\ \E i \in DOMAIN series : Between(series[i], SerialLo, SerialHi)

(* not series.empty and series.between(30000, 60000).all() (line 22) *)
IsSerialColumn(col) ==
    LET series == DropNa(col.vals)
    IN  /\ Len(series) > 0
        /\ \A i \in DOMAIN series : Between(series[i], SerialLo, SerialHi)

(* pd.to_datetime(v, origin="1899-12-30", unit="D", errors="coerce") *)
SerialToDatetime(v) == IF IsNull(v) THEN Null ELSE Day(OriginDays + Val(v))

(* pd.to_datetime(v, errors="coerce") on a text cell: the calendar dates   *)
(* the model uses parse to their day number, anything else becomes NaT     *)
TextToDatetime(v) ==
    IF IsNull(v) THEN Null
    ELSE CASE v.s = "2024-01-01" -> Day(19723)
           [] v.s = "2024-01-02" -> Day(19724)
           [] OTHER -> Null

(* the test of the elif (line 31) evaluates col.lower(): AttributeError    *)
(* for a label that is not a str, and only when the test gets that far     *)
LowerRaises(col) ==
    /\ ~IsNumericDtype(col)
    /\ col.dtype = "object"
    /\ ~col.name.isStr

(* the body of the loop for one column (lines 20-32) *)
FixColumn(col) ==
    IF IsNumericDtype(col)
    THEN IF IsSerialColumn(col)
         THEN [col EXCEPT !.dtype = "datetime",
                          !.vals = [i \in DOMAIN col.vals |->
                                        SerialToDatetime(col.vals[i])]]
         ELSE col
    ELSE IF col.dtype = "object" /\ Contains(DateWord, Lower(col.name.chars))
    THEN [col EXCEPT !.dtype = "datetime",
                     !.vals = [i \in DOMAIN col.vals |->
                                   TextToDatetime(col.vals[i])]]
    ELSE col

RECURSIVE FixFrom(_, _)
(* the for loop from column i on: columns are assigned into the frame one  *)
(* by one, so an exception leaves the earlier columns already converted    *)
FixFrom(t, i) ==
    IF i > Len(t) THEN [raised |-> FALSE, table |-> t]
    ELSE IF LowerRaises(t[i]) THEN [raised |-> TRUE, table |-> t]
    ELSE FixFrom([t EXCEPT ![i] = FixColumn(t[i])], i + 1)

fix_excel_dates(t) == FixFrom(t, 1)

(* Content of the argument object after the call: df[col] = ... (lines 23  *)
(* and 32) assigns into the frame that was passed in                       *)
(* faulty variant: the function works on a copy *)
ArgAfterFixCopied(t) == t

ArgAfterFix(t) == fix_excel_dates(t).table

---------------------------------------------------------------------------
(* The filter loop (lines 68-104) *)

(* faulty variant: a null cell passes the range *)
InRangeOrNull(v, lo, hi) == IsNull(v) \/ (lo <= Val(v) /\ Val(v) <= hi)

(* faulty variant: the mask is inverted *)
InRangeInverted(v, lo, hi) == ~IsNull(v) /\ ~(lo <= Val(v) /\ Val(v) <= hi)

(* Series.between(lo, hi) on numeric or date cells (lines 87 and 97):      *)
(* inclusive, NaN/NaT is False                                             *)
InRange(v, lo, hi) == ~IsNull(v) /\ lo <= Val(v) /\ Val(v) <= hi

MinOf(S) == CHOOSE m \in S : \A x \in S : m <= x

MaxOf(S) == CHOOSE m \in S : \A x \in S : x <= m

(* the numbers of the non-null cells of a column *)
Present(col) == {Val(col.vals[i]) : i \in {j \in DOMAIN col.vals : ~IsNull(col.vals[j])}}

(* filtered_df[col].dropna().unique().tolist() (line 102) *)
UniqueValues(col) == {col.vals[i] : i \in {j \in DOMAIN col.vals : ~IsNull(col.vals[j])}}

(* What a widget of the loop returned for column c.  kind is the branch    *)
(* taken; nan marks a slider whose bounds are float(NaN), the min and max  *)
(* of a column without a non-null cell.                                    *)
RangeSel(c, kind, lo, hi, dflt) ==
    [col |-> c, kind |-> kind, nan |-> FALSE, lo |-> lo, hi |-> hi,
     allowed |-> {}, dflt |-> dflt]
NanSel(c, kind) ==
    [col |-> c, kind |-> kind, nan |-> TRUE, lo |-> 0, hi |-> 0,
     allowed |-> {}, dflt |-> TRUE]
SetSel(c, allowed, dflt) ==
    [col |-> c, kind |-> "text", nan |-> FALSE, lo |-> 0, hi |-> 0,
     allowed |-> allowed, dflt |-> dflt]

(* the boolean mask of lines 87, 97 and 104 *)
RowMask(col, sel) ==
    [i \in DOMAIN col.vals |->
        IF sel.kind = "text" THEN col.vals[i] \in sel.allowed
        ELSE ~sel.nan /\ InRange(col.vals[i], sel.lo, sel.hi)]

(* filtered_df[mask]: a new frame with the rows where the mask is True *)
FilterBy(t, sel) ==
    LET mask == RowMask(t[sel.col], sel)
    IN  [j \in DOMAIN t |-> [t[j] EXCEPT !.vals = SelectIdx(t[j].vals, mask, 1)]]

RECURSIVE ApplyFrom(_, _, _)
ApplyFrom(t, s, k) ==
    IF k > Len(s) THEN t ELSE ApplyFrom(FilterBy(t, s[k]), s, k + 1)

(* the whole loop for the widget values s *)
ApplyFilters(t, s) == ApplyFrom(t, s, 1)

(* the selections a widget of the loop can return for column c of t *)
WidgetValues(t, c) ==
    LET col == t[c]
        kind == IF IsNumericDtype(col) THEN "number"
                ELSE IF IsDatetimeDtype(col) THEN "datetime" ELSE "text"
        pts == Present(col)
    IN  IF kind = "text"
        THEN {SetSel(c, a, a = UniqueValues(col)) : a \in SUBSET UniqueValues(col)}
        ELSE IF pts = {} THEN {NanSel(c, kind)}
        ELSE {RangeSel(c, kind, r[1], r[2],
                       r[1] = MinOf(pts) /\ r[2] = MaxOf(pts)) :
                  r \in {q \in pts \X pts : q[1] <= q[2]}}

---------------------------------------------------------------------------
(* KPIs (lines 112-132) *)

(* the positions of the columns select_dtypes(include="number") keeps *)
NumericCols(t) == {c \in DOMAIN t : IsNumericDtype(t[c])}

RECURSIVE SumFrom(_, _)
SumFrom(vals, i) ==
    IF i > Len(vals) THEN 0
    ELSE (IF IsNull(vals[i]) THEN 0 ELSE Val(vals[i])) + SumFrom(vals, i + 1)

(* Series.sum(): NaN is skipped, the sum of nothing is 0 *)
SeriesSum(vals) == SumFrom(vals, 1)

(* Series.count(): the number of non-null cells *)
SeriesCount(vals) == Len(DropNa(vals))

(* faulty variant: the mean divides by the number of rows *)
SeriesMeanOverLen(vals) ==
    IF Len(vals) = 0 THEN [nan |-> TRUE, num |-> 0, den |-> 1]
    ELSE [nan |-> FALSE, num |-> SumFrom(vals, 1), den |-> Len(vals)]

(* Series.mean(): the sum of the non-null cells over their number, as the  *)
(* fraction num/den; NaN when there is no non-null cell                    *)
SeriesMean(vals) ==
    IF Len(DropNa(vals)) = 0 THEN [nan |-> TRUE, num |-> 0, den |-> 1]
    ELSE [nan |-> FALSE, num |-> SumFrom(vals, 1), den |-> Len(DropNa(vals))]

(* one row of kpi_df (lines 124-128) *)
KpiRow(t, c) ==
    [col |-> c,
     Sum |-> SeriesSum(t[c].vals),
     Average |-> SeriesMean(t[c].vals),
     Count |-> SeriesCount(t[c].vals)]

RECURSIVE SetToSeq(_)
(* a set of integers as the ascending sequence *)
SetToSeq(S) ==
    IF S = {} THEN <<>> ELSE <<MinOf(S)>> \o SetToSeq(S \ {MinOf(S)})

---------------------------------------------------------------------------
(* Charts (lines 137-200) *)

NoChart == [kind |-> "none"]

ChartTypes == {"Line", "Bar", "Pie", "Combo"}

(* faulty variant: value_counts(dropna=False) *)
ValueCountsKeepNa(vals) ==
    {[label |-> v, size |-> Cardinality({i \in DOMAIN vals : vals[i] = v})] :
        v \in Range(vals)}

(* Series.value_counts(): how often each non-null value occurs *)
ValueCounts(vals) ==
    {[label |-> v, size |-> Cardinality({i \in DOMAIN vals : vals[i] = v})] :
        v \in Range(DropNa(vals))}

(* the Pie branch (lines 150-159): one pie per y column, of the value      *)
(* counts of that column; x_col is not read                                *)
PieCharts(t, y_cols) ==
    [k \in DOMAIN y_cols |->
        [title |-> t[y_cols[k]].name,
         slices |-> ValueCounts(t[y_cols[k]].vals)]]

RECURSIVE OrderFrom(_, _)
(* the row positions in S ordered by the key of column col, ties in row    *)
(* order                                                                   *)
OrderFrom(col, S) ==
    IF S = {} THEN <<>>
    ELSE LET m == MinOf({Val(col.vals[i]) : i \in S})
             first == MinOf({i \in S : Val(col.vals[i]) = m})
         IN  <<first>> \o OrderFrom(col, S \ {first})

(* the rows of t at the positions idx, in that order *)
TakeRows(t, idx) ==
    [j \in DOMAIN t |->
        [t[j] EXCEPT !.vals = [k \in DOMAIN idx |-> t[j].vals[idx[k]]]]]

(* plot_df.sort_values(by=x_col): ascending, NaT last (line 167) *)
SortValues(t, x) ==
    LET col == t[x]
        some == {i \in DOMAIN col.vals : ~IsNull(col.vals[i])}
        none == {i \in DOMAIN col.vals : IsNull(col.vals[i])}
    IN  TakeRows(t, OrderFrom(col, some) \o SetToSeq(none))

(* plot_df.groupby(x_col, as_index=False)[y_cols].sum() followed by        *)
(* set_index(x_col)[y_cols] (lines 170-174): one row per distinct non-null *)
(* key, keys ascending, each y summed over the rows of the key             *)
GroupBySum(t, x, y_cols) ==
    LET keys == SetToSeq(Present(t[x]))
        rowsOf(k) == [i \in DOMAIN t[x].vals |->
                         ~IsNull(t[x].vals[i]) /\ Val(t[x].vals[i]) = keys[k]]
    IN  [index |-> [k \in DOMAIN keys |-> Day(keys[k])],
         series |-> [n \in DOMAIN y_cols |->
                        [name |-> t[y_cols[n]].name,
                         vals |-> [k \in DOMAIN keys |->
                             Num(SeriesSum(SelectIdx(t[y_cols[n]].vals,
                                                     rowsOf(k), 1)))]]]]

(* plot_df.set_index(x_col)[y_cols] without grouping: one point per row *)
AsIs(t, x, y_cols) ==
    [index |-> t[x].vals,
     series |-> [n \in DOMAIN y_cols |->
                    [name |-> t[y_cols[n]].name, vals |-> t[y_cols[n]].vals]]]

(* set_index(x_col) moves x_col out of the columns, so selecting it again  *)
(* as a y column raises KeyError (line 174); a datetime x is never numeric *)
SetIndexRaises(t, x, y_cols) == x \in Range(y_cols)

(* faulty variant: a datetime x is not aggregated *)
DfChartNoGroup(t, x, y_cols) == AsIs(t, x, y_cols)

(* df_chart (lines 163-174) *)
DfChart(t, x, y_cols) ==
    IF IsDatetimeDtype(t[x])
    THEN GroupBySum(SortValues(t, x), x, y_cols)
    ELSE AsIs(t, x, y_cols)

(* how a chart type draws df_chart (lines 178-186): the marks and the      *)
(* vertical scale of each                                                  *)
Layers(chart_type) ==
    IF chart_type = "Line" THEN <<[mark |-> "line", scale |-> "primary"]>>
    ELSE IF chart_type = "Bar" THEN <<[mark |-> "bar", scale |-> "primary"]>>
    ELSE <<[mark |-> "bar", scale |-> "primary"],
           [mark |-> "line", scale |-> "secondary"]>>

---------------------------------------------------------------------------
(* The tables read_excel can return (lines 43-57), up to MaxRows rows *)

NameDate == StrName(<<"D", "a", "t", "e">>)
NameUpdated == StrName(<<"U", "P", "D", "A", "T", "E", "D">>)
NameQty == StrName(<<"q", "t", "y">>)
NameAmt == StrName(<<"a", "m", "t">>)
NameRegion == StrName(<<"r", "e", "g", "i", "o", "n">>)
NameYear == IntName(2024)
NameSeven == IntName(7)

Columns(names, dtype, cells, n) ==
    {Column(nm, dtype, vs) : nm \in names, vs \in SeqsOfLen(cells, n)}

(* inputs of the date fixer: cells on both sides of the serial window,     *)
(* text that parses and text that does not, str and int labels             *)
SerialCells == {Null, Num(29999), Num(30000), Num(60000), Num(60001)}
TextCells == {Null, Txt("2024-01-01"), Txt("n/a")}
DayCells == {Null, Day(19723)}

FirstColumns(n) ==
    Columns({NameDate, NameQty, NameYear}, "number", SerialCells, n)
    \cup Columns({NameDate, NameUpdated, NameQty, NameYear}, "object", TextCells, n)
    \cup Columns({NameDate}, "datetime", DayCells, n)

SecondColumns(n) ==
    Columns({NameAmt}, "number", {Null, Num(45000)}, n)
    \cup Columns({NameSeven}, "object", {Txt("n/a")}, n)

NormTables ==
    UNION {{<<a>> : a \in FirstColumns(n)}
           \cup {<<a, b>> : a \in FirstColumns(n), b \in SecondColumns(n)} :
           n \in 0..MaxRows}

(* inputs of the whole script: a first column (serial dates, text dates,   *)
(* plain text, plain numbers) beside a numeric column                      *)
XColumns(n) ==
    Columns({NameDate}, "number", {Null, Num(45001), Num(45000)}, n)
    \cup Columns({NameDate}, "object",
                 {Txt("2024-01-02"), Txt("2024-01-01"), Txt("n/a")}, n)
    \cup Columns({NameRegion}, "object", {Null, Txt("A"), Txt("B")}, n)
    \cup Columns({NameAmt}, "number", {Null, Num(3), Num(45000)}, n)
    \cup Columns({NameYear}, "object", {Txt("A")}, n)

YColumns(n) == Columns({NameQty}, "number", {Null, Num(4), Num(6)}, n)

Tables ==
    UNION {{<<a, b>> : a \in XColumns(n), b \in YColumns(n)} : n \in 0..MaxRows}

(* the sequences without repetition over S: what st.multiselect returns *)
RECURSIVE Selections(_)
Selections(S) ==
    {<<>>} \cup UNION {{<<x>> \o rest : rest \in Selections(S \ {x})} : x \in S}

---------------------------------------------------------------------------
(* The script *)

InitWith(T) ==
    /\ pc = "loaded"
    /\ loaded \in T
    /\ raw = loaded
    /\ df = loaded
    /\ filter_cols = <<>>
    /\ fi = 0
    /\ selections = <<>>
    /\ filtered_df = NoFrame
    /\ kpi_df = NoFrame
    /\ chart = NoChart
    /\ err = FALSE

Init == InitWith(Tables)

InitNorm == InitWith(NormTables)

(* df = fix_excel_dates(df) (line 59); an exception goes to line 202 *)
Normalize ==
    /\ pc = "loaded"
    /\ raw' = ArgAfterFix(raw)
    /\ df' = fix_excel_dates(df).table
    /\ IF fix_excel_dates(df).raised
       THEN pc' = "error" /\ err' = TRUE
       ELSE pc' = "normalized" /\ err' = FALSE
    /\ UNCHANGED <<loaded, filter_cols, fi, selections, filtered_df, kpi_df, chart>>

(* fix_excel_dates applied to the table it returned *)
Renormalize ==
    /\ pc = "normalized"
    /\ raw' = ArgAfterFix(raw)
    /\ df' = fix_excel_dates(df).table
    /\ IF fix_excel_dates(df).raised
       THEN pc' = "error" /\ err' = TRUE
       ELSE pc' = "renormalized" /\ err' = FALSE
    /\ UNCHANGED <<loaded, filter_cols, fi, selections, filtered_df, kpi_df, chart>>

(* filtered_df = df.copy() and the multiselect of the columns to filter    *)
(* (lines 68-73)                                                           *)
SelectFilters ==
    /\ pc = "normalized"
    /\ filtered_df' = df
    /\ \E fc \in Selections(DOMAIN df) : filter_cols' = fc
    /\ fi' = 0
    /\ selections' = <<>>
    /\ pc' = "filter_loop"
    /\ UNCHANGED <<loaded, raw, df, kpi_df, chart, err>>

(* one iteration of the loop (lines 75-104) with the widget returning sel *)
FilterStep ==
    /\ pc = "filter_loop"
    /\ fi < Len(filter_cols)
    /\ \E sel \in WidgetValues(filtered_df, filter_cols[fi + 1]) :
          /\ filtered_df' = FilterBy(filtered_df, sel)
          /\ selections' = Append(selections, sel)
    /\ fi' = fi + 1
    /\ UNCHANGED <<pc, loaded, raw, df, filter_cols, kpi_df, chart, err>>

(* a numeric or datetime column without a non-null cell hands float(NaN)   *)
(* (line 82) or NaT.date() (line 92) to the widget, which may refuse it    *)
FilterRaises ==
    /\ pc = "filter_loop"
    /\ fi < Len(filter_cols)
    /\ LET col == filtered_df[filter_cols[fi + 1]]
       IN  (IsNumericDtype(col) \/ IsDatetimeDtype(col)) /\ Present(col) = {}
    /\ pc' = "error"
    /\ err' = TRUE
    /\ UNCHANGED <<loaded, raw, df, filter_cols, fi, selections, filtered_df,
                   kpi_df, chart>>

(* the KPI section after the loop (lines 106-132) *)
KPIs ==
    /\ pc = "filter_loop"
    /\ fi = Len(filter_cols)
    /\ \E kpi_cols \in SUBSET NumericCols(filtered_df) :
          kpi_df' = [k \in 1..Cardinality(kpi_cols) |->
                        KpiRow(filtered_df, SetToSeq(kpi_cols)[k])]
    /\ pc' = "charts"
    /\ UNCHANGED <<loaded, raw, df, filter_cols, fi, selections, filtered_df,
                   chart, err>>

(* the button is not pressed, or no y column is selected (line 146) *)
NoChartDrawn ==
    /\ pc = "charts"
    /\ chart' = NoChart
    /\ pc' = "done"
    /\ UNCHANGED <<loaded, raw, df, filter_cols, fi, selections, filtered_df,
                   kpi_df, err>>

(* chart_type == "Pie" (lines 149-159) *)
DrawPie ==
    /\ pc = "charts"
    /\ \E x \in DOMAIN filtered_df, ys \in SUBSET NumericCols(filtered_df) \ {{}} :
          chart' = [kind |-> "Pie", x_col |-> x, y_cols |-> SetToSeq(ys),
                    pies |-> PieCharts(filtered_df, SetToSeq(ys))]
    /\ pc' = "done"
    /\ UNCHANGED <<loaded, raw, df, filter_cols, fi, selections, filtered_df,
                   kpi_df, err>>

(* Line, Bar and Combo (lines 162-200) *)
DrawPlot ==
    /\ pc = "charts"
    /\ \E x \in DOMAIN filtered_df, ys \in SUBSET NumericCols(filtered_df) \ {{}},
          ct \in ChartTypes \ {"Pie"} :
          /\ ~SetIndexRaises(filtered_df, x, SetToSeq(ys))
          /\ chart' = [kind |-> ct, x_col |-> x, y_cols |-> SetToSeq(ys),
                       df_chart |-> DfChart(filtered_df, x, SetToSeq(ys)),
                       layers |-> Layers(ct)]
    /\ pc' = "done"
    /\ UNCHANGED <<loaded, raw, df, filter_cols, fi, selections, filtered_df,
                   kpi_df, err>>

(* Line, Bar and Combo with x_col among y_cols: KeyError, caught at 202 *)
PlotRaises ==
    /\ pc = "charts"
    /\ \E x \in DOMAIN filtered_df, ys \in SUBSET NumericCols(filtered_df) \ {{}} :
          SetIndexRaises(filtered_df, x, SetToSeq(ys))
    /\ chart' = NoChart
    /\ pc' = "error"
    /\ err' = TRUE
    /\ UNCHANGED <<loaded, raw, df, filter_cols, fi, selections, filtered_df,
                   kpi_df>>

Next ==
    \/ Normalize
    \/ SelectFilters
    \/ FilterStep
    \/ FilterRaises
    \/ KPIs
    \/ NoChartDrawn
    \/ DrawPie
    \/ DrawPlot
    \/ PlotRaises

Spec == Init /\ [][Next]_vars

NextNorm == Normalize \/ Renormalize

SpecNorm == InitNorm /\ [][NextNorm]_vars

---------------------------------------------------------------------------
(* Properties of the date fixer, checked under SpecNorm *)

(* C1: normalization is idempotent: running fix_excel_dates on a table it  *)
(* returned raises nothing and changes no column kind and no value; a      *)
(* column already converted to datetime is not converted or parsed again.  *)
C1_Idempotent ==
    [][pc = "normalized" => (pc' # "error" /\ df' = df)]_vars

(* a converted serial column has gone through a second run *)
C1_Witness ==
    /\ pc = "renormalized"
    /\ \E c \in DOMAIN df :
          /\ loaded[c].dtype = "number"
          /\ df[c].dtype = "datetime"
          /\ Day(34431) \in Range(df[c].vals)

(* C2: a numeric column of the returned table is converted to datetime,    *)
(* every value v becoming 1899-12-30 + v days and every null staying null, *)
(* if and only if it has a non-null value and all its non-null values lie  *)
(* in [30000, 60000]; otherwise it is returned as it was.                  *)
C2_SerialAllOrNothing ==
    pc = "normalized" =>
        \A c \in DOMAIN loaded :
            loaded[c].dtype = "number" =>
                LET cells == loaded[c].vals
                    nonnull == {i \in DOMAIN cells : cells[i] # Null}
                    qualifies ==
                        /\ nonnull # {}
                        /\ \A i \in nonnull :
                              cells[i].n >= 30000 /\ cells[i].n <= 60000
                IN  IF qualifies
                    THEN /\ df[c].dtype = "datetime"
                         /\ df[c].name = loaded[c].name
                         /\ DOMAIN df[c].vals = DOMAIN cells
                         /\ \A i \in DOMAIN cells :
                               df[c].vals[i] =
                                   IF i \in nonnull
                                   THEN Day(cells[i].n - 25569)
                                   ELSE Null
                    ELSE df[c] = loaded[c]

(* a serial column with a null cell has been converted *)
C2_Witness ==
    /\ pc = "normalized"
    /\ \E c \in DOMAIN loaded :
          /\ loaded[c].vals = <<Null, Num(60000)>>
          /\ df[c].dtype = "datetime"
          /\ df[c].vals = <<Null, Day(34431)>>

(* C8: normalization never raises, whatever the labels, kinds and values   *)
(* of the columns; a text column whose label contains "date" in any case   *)
(* becomes datetime, each value that parses becoming its date and each     *)
(* other value null; a column under neither rule is returned as it was.    *)
C8_NormalizeTotal ==
    /\ pc # "error"
    /\ ~err
    /\ pc = "normalized" =>
          \A c \in DOMAIN loaded :
              IF loaded[c].dtype = "number" THEN TRUE
              ELSE IF /\ loaded[c].dtype = "object"
                      /\ loaded[c].name \in {NameDate, NameUpdated}
              THEN /\ df[c].dtype = "datetime"
                   /\ DOMAIN df[c].vals = DOMAIN loaded[c].vals
                   /\ \A i \in DOMAIN loaded[c].vals :
                         df[c].vals[i] =
                             IF loaded[c].vals[i] = Txt("2024-01-01")
                             THEN Day(19723)
                             ELSE Null
              ELSE df[c] = loaded[c]

---------------------------------------------------------------------------
(* Properties of the script, checked under Spec *)

RECURSIVE SumRows(_, _)
(* the sum of the cells of vals at the positions S *)
SumRows(vals, S) ==
    IF S = {} THEN 0
    ELSE LET i == CHOOSE j \in S : TRUE
         IN  Val(vals[i]) + SumRows(vals, S \ {i})

NonNullRows(vals) == {i \in DOMAIN vals : vals[i] # Null}

Filtered == pc \in {"filter_loop", "charts", "done"}

(* C3, as claimed: a pie groups the rows by the x column and sums the y    *)
(* column within each group; the labels are the distinct x values and the  *)
(* sizes the sums (stated for rows without a null in x or y).              *)
C3_PieSumsByX ==
    (pc = "done" /\ chart.kind = "Pie") =>
        \A n \in DOMAIN chart.y_cols :
            LET x == filtered_df[chart.x_col].vals
                y == filtered_df[chart.y_cols[n]].vals
            IN  (NonNullRows(x) = DOMAIN x /\ NonNullRows(y) = DOMAIN y) =>
                chart.pies[n].slices =
                    {[label |-> x[g],
                      size |-> SumRows(y, {i \in NonNullRows(y) : x[i] = x[g]})] :
                        g \in NonNullRows(x)}

(* C3, amended: a pie is drawn for each y column on its own from the value *)
(* counts of that column; the labels are its distinct non-null values and  *)
(* each size is the number of rows holding the value; x is not used.       *)
C3_PieCountsValues ==
    (pc = "done" /\ chart.kind = "Pie") =>
        /\ Len(chart.pies) = Len(chart.y_cols)
        /\ \A n \in DOMAIN chart.y_cols :
              LET y == filtered_df[chart.y_cols[n]].vals
                  slices == chart.pies[n].slices
              IN  /\ {s.label : s \in slices} = {y[i] : i \in NonNullRows(y)}
                  /\ \A s \in slices :
                        s.size = Cardinality({i \in DOMAIN y : y[i] = s.label})
                  /\ Cardinality(slices) = Cardinality({s.label : s \in slices})

(* two rows with different x and the same y make one slice of size 2 *)
C3_Witness ==
    /\ pc = "done"
    /\ chart.kind = "Pie"
    /\ filtered_df[chart.x_col].vals = <<Txt("A"), Txt("B")>>
    /\ filtered_df[chart.y_cols[1]].vals = <<Num(4), Num(4)>>
    /\ chart.pies[1].slices = {[label |-> Num(4), size |-> 2]}

(* C4: a Line, Bar or Combo chart over a datetime x column has one point   *)
(* per distinct date of the filtered rows, in ascending date order, and    *)
(* the y value of a point is the sum of the y column over the filtered     *)
(* rows of that date.                                                      *)
C4_DateAxisAggregates ==
    (/\ pc = "done"
     /\ chart.kind \in {"Line", "Bar", "Combo"}
     /\ filtered_df[chart.x_col].dtype = "datetime") =>
        LET x == filtered_df[chart.x_col].vals
            dates == {x[i].d : i \in NonNullRows(x)}
            idx == chart.df_chart.index
            series == chart.df_chart.series
        IN  /\ Len(idx) = Cardinality(dates)
            /\ \A k \in DOMAIN idx : idx[k].t = "day" /\ idx[k].d \in dates
            /\ \A k \in 1..(Len(idx) - 1) : idx[k].d < idx[k + 1].d
            /\ Len(series) = Len(chart.y_cols)
            /\ \A n \in DOMAIN chart.y_cols :
                  LET y == filtered_df[chart.y_cols[n]].vals
                  IN  /\ Len(series[n].vals) = Len(idx)
                      /\ \A k \in DOMAIN idx :
                            series[n].vals[k] =
                                Num(SumRows(y, {i \in NonNullRows(y) :
                                                   x[i] = idx[k]}))

(* two rows of one date with y = 4 and y = 6 make the single point 10 *)
C4_Witness ==
    /\ pc = "done"
    /\ chart.kind = "Combo"
    /\ filtered_df[chart.x_col].vals = <<Day(19723), Day(19723)>>
    /\ filtered_df[chart.y_cols[1]].vals = <<Num(4), Num(6)>>
    /\ chart.df_chart.index = <<Day(19723)>>
    /\ chart.df_chart.series[1].vals = <<Num(10)>>

(* C6: filtering is idempotent and monotonic: the loop yields the rows     *)
(* that the widget values s select, applying s to that result selects the  *)
(* same rows, and replacing a range of s by a range it contains never      *)
(* yields more rows.                                                       *)
C6_FilterIdempotentMonotonic ==
    Filtered =>
        /\ filtered_df = ApplyFilters(df, selections)
        /\ ApplyFilters(filtered_df, selections) = filtered_df
        /\ \A k \in DOMAIN selections :
              (selections[k].kind # "text" /\ ~selections[k].nan) =>
                  LET pts == Present(df[selections[k].col])
                             \cup {selections[k].lo, selections[k].hi}
                  IN  \A lo \in pts, hi \in pts :
                          (selections[k].lo <= lo /\ hi <= selections[k].hi) =>
                              NRows(ApplyFilters(df,
                                  [selections EXCEPT ![k].lo = lo, ![k].hi = hi]))
                                  <= NRows(filtered_df)

(* two columns filtered, one by a range narrower than the default, and a   *)
(* row removed                                                             *)
C6_Witness ==
    /\ pc = "done"
    /\ Len(selections) = 2
    /\ \E k \in DOMAIN selections :
          selections[k].kind = "number" /\ ~selections[k].dflt
    /\ NRows(filtered_df) = 1
    /\ NRows(df) = 2

(* C7, as claimed: no stage modifies its input: the table passed to        *)
(* fix_excel_dates keeps its kinds and values, the filter loop leaves df   *)
(* as it was and the chart section leaves filtered_df as it was.           *)
C7_InputsUnmodified ==
    [][/\ raw' = raw
       /\ pc = "filter_loop" => df' = df
       /\ pc = "charts" => filtered_df' = filtered_df]_vars

(* C7, amended: fix_excel_dates assigns into the table it is given and     *)
(* returns that table, so after the call the caller's table holds the      *)
(* normalized columns; the filter loop leaves df as it was and the chart   *)
(* section leaves filtered_df as it was.                                   *)
C7_OnlyNormalizeInPlace ==
    [][/\ pc = "loaded" => raw' = df'
       /\ pc \in {"normalized", "filter_loop", "charts"} =>
             (raw' = raw /\ df' = df)
       /\ pc = "charts" => filtered_df' = filtered_df]_vars

(* a run that converted a column in place, filtered a row out and drew a   *)
(* chart                                                                   *)
C7_Witness ==
    /\ pc = "done"
    /\ raw # loaded
    /\ raw = df
    /\ NRows(filtered_df) < NRows(df)
    /\ chart.kind = "Line"

(* C9: a KPI row holds the number of non-null values of its column in the  *)
(* filtered table as Count, their sum as Sum, and Sum/Count as Average     *)
(* when Count > 0; null values count in none of them.                      *)
C9_KpiStats ==
    \A k \in DOMAIN kpi_df :
        LET row == kpi_df[k]
            vals == filtered_df[row.col].vals
        IN  /\ row.Count = Cardinality(NonNullRows(vals))
            /\ row.Sum = SumRows(vals, NonNullRows(vals))
            /\ row.Count > 0 =>
                  /\ ~row.Average.nan
                  /\ row.Average.den > 0
                  /\ row.Average.num * row.Count = row.Sum * row.Average.den

(* a KPI row over a column with a null and a number *)
C9_Witness ==
    /\ pc = "charts"
    /\ \E k \in DOMAIN kpi_df :
          /\ filtered_df[kpi_df[k].col].vals = <<Num(6), Null>>
          /\ kpi_df[k].Sum = 6
          /\ kpi_df[k].Count = 1
          /\ kpi_df[k].Average = [nan |-> FALSE, num |-> 6, den |-> 1]

(* C10: with every widget of the loop left at its default, the filtered    *)
(* table is exactly the rows of df that are non-null in every column       *)
(* selected for filtering; whatever the widgets return, a row is kept or   *)
(* removed by its cells in the selected columns alone.                     *)
C10_DefaultDropsNulls ==
    Filtered =>
        /\ (\A k \in DOMAIN selections : selections[k].dflt) =>
              filtered_df =
                  TakeRows(df, SetToSeq({i \in 1..NRows(df) :
                      \A k \in DOMAIN selections :
                          df[selections[k].col].vals[i] # Null}))
        /\ filtered_df =
              TakeRows(df, SetToSeq({i \in 1..NRows(df) :
                  \A k \in DOMAIN selections :
                      RowMask(df[selections[k].col], selections[k])[i]}))

(* defaults only: the row that is null in the selected column is gone, the *)
(* row that is null in the other column is kept                            *)
C10_Witness ==
    /\ pc = "filter_loop"
    /\ Len(selections) = 1
    /\ selections[1].dflt
    /\ NRows(df) = 2
    /\ NRows(filtered_df) = 1
    /\ \E c \in DOMAIN df :
          c # selections[1].col /\ filtered_df[c].vals = <<Null>>

===========================================================================
